---- MODULE Spec2Model ----
(***************************************************************************)
(* A model of loQL's service worker (src/sw.js): the fetch listener, the   *)
(* caching pipeline runCachingLogic, the freshness test, the network       *)
(* executor, the write-through to the "queries" store and the merge of the *)
(* normalized response into that store.                                    *)
(*                                                                         *)
(* Every await of the source is a point where other tasks may run, so a    *)
(* handler is cut into one action per await it resumes from.  The store    *)
(* adapter (./db), the normalizer (./normalizeResult) and the hash         *)
(* (./md5) are imported by sw.js; they are modelled from their contract.   *)
(* The Metrics object (./Metrics) holds nothing the pipeline reads; the    *)
(* settling of its save call is observed in SpecMetrics only.              *)
(***************************************************************************)
EXTENDS Integers, Sequences, FiniteSets, TLC

(* ------------------------------ bounds -------------------------------- *)

\* number of fetch events the worker receives
MaxReqs == 2
\* the wall clock is advanced freely up to this value (a network round trip
\* advances it as well, see FetchDone)
MaxTime == 2
\* cacheExpirationLimit ranges over 0..MaxLimit, or is not configured
MaxLimit == 1

Reqs == 1..MaxReqs

(* ------------------------------ values -------------------------------- *)

\* the JavaScript value undefined (also what a store read gives for a key
\* that is absent)
Undefined == [undefined |-> TRUE]

\* a rejected fetch (transport failure) or a body that is not JSON
NetworkError == [error |-> "NetworkError"]

\* the one configured GraphQL endpoint (urlObject.origin + urlObject.pathname)
Endpoint == "https://api/graphql"

\* the selections parse(query) finds in the outermost selection set of a
\* query text
TopLevelFields(query) ==
  CASE query = "qUser" -> <<"user">>
    [] query = "qPosts" -> <<"posts">>

\* variables as a request carries them: null (GET without the parameter),
\* undefined (POST body without the key), a string (GET) or an object (POST)
VarNull == [t |-> "null"]
VarUndefined == [t |-> "undefined"]

\* the requests the page sends; the last one carries no query
Ops ==
  { [method |-> "POST", query |-> "qUser", variables |-> VarUndefined],
    [method |-> "GET", query |-> "qPosts", variables |-> VarNull],
    [method |-> "GET", query |-> "", variables |-> VarNull] }

\* requests that carry the same query text with different variables: as a
\* query-string value (GET) and as a JSON object (POST)
VarString(str) == [t |-> "string", s |-> str]
VarObject(id) == [t |-> "object", id |-> id]

VarOps ==
  { [method |-> "GET", query |-> "qUser", variables |-> VarString("{\"id\":1}")],
    [method |-> "GET", query |-> "qUser", variables |-> VarString("{\"id\":2}")],
    [method |-> "POST", query |-> "qUser", variables |-> VarObject(1)],
    [method |-> "POST", query |-> "qUser", variables |-> VarObject(2)] }

\* entities a response may carry
Ent(typename, id, fields) == [typename |-> typename, id |-> id, fields |-> fields]

\* response payloads of the server: data is a sequence of top-level entries,
\* each a field with one object or a list of objects
PayloadData(p) ==
  CASE p = "U1" ->
         << [field |-> "user", kind |-> "object",
             items |-> << Ent("User", "1", [name |-> "ann"]) >>] >>
    [] p = "U2" ->
         << [field |-> "user", kind |-> "object",
             items |-> << Ent("User", "1", [email |-> "ann@x"]) >>] >>
    [] p = "P1" ->
         << [field |-> "posts", kind |-> "list",
             items |-> << Ent("Post", "1", [title |-> "t"]) >>] >>

\* the JSON-decoded body of a response: { data: ... }
Payload(p) == [payload |-> p]

\* what the server may answer to a query (its data changes over time)
ServerPayloads(query) ==
  CASE query = "qUser" -> {"U1", "U2"}
    [] query = "qPosts" -> {"P1"}
    [] OTHER -> {"U1"}  \* a request without a query, passed through

EntityKeys == {<<"User", "1">>, <<"Post", "1">>}

(* ------------------------------ state --------------------------------- *)

VARIABLES
  now,          \* Date.now()
  settings,     \* the settings the page has put in the "settings" store
  loaded,       \* the settings activation has assigned to the settings object
  queries,      \* "queries" store: cache records by hashed query
  entities,     \* "queries" store: normalized entities by composite key
  rootQuery,    \* "queries" store: the ROOT_QUERY record
  pc,           \* per fetch event: where its handler is suspended
  op,           \* per fetch event: the request (method, query, variables)
  cachedData,   \* runCachingLogic's cachedData
  lookupFailed, \* whether get('queries', hashedQuery) threw for this event
  checkedAt,    \* Date.now() when the freshness of cachedData was judged
  upd,          \* where this event's executeAndUpdate call is suspended
  detached,     \* whether executeAndUpdate was called without await
  data,         \* executeAndUpdate's data (result of executeQuery)
  rootSnap,     \* writeToNormalizedCache's rootQuery (what its get returned)
  response,     \* what the page receives for this fetch event
  netCalls,     \* number of network fetches issued for this event
  writes,       \* parts of the "queries" store this event wrote to
  rejected,     \* the calls of this event whose promise rejected with no handler
  saved         \* how the promise of this event's metrics.save call settled

storeVars == <<queries, entities, rootQuery>>
mainVars == <<pc, op, cachedData, lookupFailed, checkedAt, response>>
updVars == <<upd, detached, data, rootSnap>>
ghostVars == <<netCalls, writes, rejected>>
vars == <<now, settings, loaded, storeVars, mainVars, updVars, ghostVars, saved>>

(* ----------------------- settings and pure code ----------------------- *)

Num(n) == [num |-> n]
List(s) == [list |-> s]

\* JavaScript's !v for the values a setting takes
Falsy(v) == v = Undefined \/ v = Num(0)

Limits == {Undefined} \cup {Num(n) : n \in 0..MaxLimit}

CacheMethods == {"cache-first", "cache-network"}

\* settings a page may have stored before activation
Settings ==
  [ gqlEndpoints : {{Endpoint}},
    cacheMethod : CacheMethods,
    cacheExpirationLimit : Limits,
    doNotCacheGlobal : {List(<<"posts">>)},
    doNotCacheCustom : {<<>>} ]

\* the names the activate listener loads from the "settings" store
validSettings ==
  {"gqlEndpoints", "cacheMethod", "cacheExpirationLimit", "doNotCacheGlobal",
   "doNotCacheCustom"}

\* settings[name] as the worker reads it: settings starts as {} and a
\* property that has not been assigned reads as undefined
Setting(name) == IF name \in loaded THEN settings[name] ELSE Undefined

\* checkCachedQueryIsFresh with the setting and the clock as parameters
FreshAt(cacheExpirationLimit, dateNow, lastApiCall) ==
  IF Falsy(cacheExpirationLimit)
    THEN TRUE
    ELSE dateNow - lastApiCall < cacheExpirationLimit.num

checkCachedQueryIsFresh(lastApiCall) ==
  FreshAt(Setting("cacheExpirationLimit"), now, lastApiCall)

\* String(variables) as query.concat(variables) converts it
concatString(variables) ==
  CASE variables.t = "null" -> "null"
    [] variables.t = "undefined" -> "undefined"
    [] variables.t = "string" -> variables.s
    [] variables.t = "object" -> "[object Object]"

\* the hash primitive, taken to be injective on its input string
ourMD5(str) == [md5 |-> str]

\* hashedQuery = ourMD5(query.concat(variables))
hashedQuery(o) == ourMD5(<<o.query, concatString(o.variables)>>)

HashKeys == {hashedQuery(o) : o \in {x \in Ops \cup VarOps : x.query # ""}}

\* getQueryFromUrl / getQueryFromBody followed by parse(query): whether the
\* request yields a query that parses
hasQuery(o) == o.query # ""

\* selections.forEach(...) of metaParseAST's visitor: the statements that
\* would push selection.name.value onto queryCST.fields are commented out,
\* so the loop leaves fields as it found it
forEachSelection(selections, fields) == fields

\* metaParseAST: queryCST after the visit
metaParseAST(query) ==
  [ operationType |-> "query",
    fields |-> forEachSelection(TopLevelFields(query), <<>>) ]

\* doNotCacheCheck
doNotCacheList(endpoint) ==
  IF endpoint \in DOMAIN settings.doNotCacheCustom
    THEN settings.doNotCacheCustom[endpoint] \o settings.doNotCacheGlobal.list
    ELSE settings.doNotCacheGlobal.list

doNotCacheCheck(queryCST, endpoint) ==
  \E i \in 1..Len(queryCST.fields) :
    \E k \in 1..Len(doNotCacheList(endpoint)) :
      queryCST.fields[i] = doNotCacheList(endpoint)[k]

\* the condition of the bypass branch of runCachingLogic
bypassed(query) ==
  /\ Setting("doNotCacheGlobal") # Undefined
  /\ doNotCacheCheck(metaParseAST(query), Endpoint)

\* endpoint in settings.doNotCacheCustom throws a TypeError when
\* doNotCacheCustom is undefined
doNotCacheThrows ==
  /\ Setting("doNotCacheGlobal") # Undefined
  /\ "doNotCacheCustom" \notin loaded

(* --------------------- normalizer and store adapter ------------------- *)

\* composite identity of an entity: type name + identifier
KeyOf(e) == <<e.typename, e.id>>

\* the flattened object stored for an entity
Flat(e) ==
  [ f \in DOMAIN e.fields \cup {"__typename", "id"} |->
      IF f = "__typename" THEN e.typename
      ELSE IF f = "id" THEN e.id
      ELSE e.fields[f] ]

\* the (key, value) pairs of the entities of a response, in response order
RECURSIVE denest(_)
denest(entries) ==
  IF entries = <<>>
    THEN <<>>
    ELSE [ j \in 1..Len(Head(entries).items) |->
             << KeyOf(Head(entries).items[j]), Flat(Head(entries).items[j]) >> ]
         \o denest(Tail(entries))

\* for each top-level field, the reference(s) that replaced its value
rootPatch(entries) ==
  [ f \in {entries[i].field : i \in 1..Len(entries)} |->
      LET e == entries[CHOOSE i \in 1..Len(entries) : entries[i].field = f]
      IN  IF e.kind = "object"
            THEN [ref |-> KeyOf(e.items[1])]
            ELSE [refs |-> [j \in 1..Len(e.items) |-> KeyOf(e.items[j])]] ]

\* normalizeResult(data.data)
normalizeResult(entries) ==
  [denestedObjects |-> denest(entries), rootQueryObject |-> rootPatch(entries)]

\* setMany('queries', arrayKeyVals): puts each value under its key
RECURSIVE setMany(_, _)
setMany(store, arrayKeyVals) ==
  IF arrayKeyVals = <<>>
    THEN store
    ELSE setMany([store EXCEPT ![Head(arrayKeyVals)[1]] = Head(arrayKeyVals)[2]],
                 Tail(arrayKeyVals))

expandedRoot_Replace(snap, rootQueryObject) == rootQueryObject

\* { rootQuery, ...rootQueryObject }: the record read is nested, not spread
expandedRoot_Nested(snap, rootQueryObject) ==
  IF snap = Undefined
    THEN rootQueryObject
    ELSE [ f \in DOMAIN rootQueryObject \cup {"rootQuery"} |->
             IF f = "rootQuery" THEN snap ELSE rootQueryObject[f] ]

\* writeToNormalizedCache: what is set under ROOT_QUERY, given what the get
\* returned
expandedRoot(snap, rootQueryObject) ==
  IF snap = Undefined
    THEN rootQueryObject
    ELSE [ f \in DOMAIN snap \cup DOMAIN rootQueryObject |->
             IF f \in DOMAIN rootQueryObject THEN rootQueryObject[f] ELSE snap[f] ]

\* executeQuery: the catch logs the error and the function returns undefined
executeQuery(outcome) == IF outcome = NetworkError THEN Undefined ELSE outcome

\* what the network may answer to a request
NetworkOutcomes(o) == {NetworkError} \cup {Payload(p) : p \in ServerPayloads(o.query)}

\* new Response(JSON.stringify(data), { status: 200 })
Built(body) == [kind |-> "built", status |-> 200, body |-> body]

\* the response of fetch(clone), handed to the page as it is
PassedThrough(outcome) == [kind |-> "passthrough", body |-> outcome]

(* ------------------------------ actions ------------------------------- *)

InitWorker ==
  /\ now = 0
  /\ settings \in Settings
  /\ queries = [k \in HashKeys |-> Undefined]
  /\ entities = [k \in EntityKeys |-> Undefined]
  /\ rootQuery = Undefined
  /\ pc = [r \in Reqs |-> "idle"]
  /\ op = [r \in Reqs |-> Undefined]
  /\ cachedData = [r \in Reqs |-> Undefined]
  /\ lookupFailed = [r \in Reqs |-> FALSE]
  /\ checkedAt = [r \in Reqs |-> 0]
  /\ upd = [r \in Reqs |-> "none"]
  /\ detached = [r \in Reqs |-> FALSE]
  /\ data = [r \in Reqs |-> Undefined]
  /\ rootSnap = [r \in Reqs |-> Undefined]
  /\ response = [r \in Reqs |-> Undefined]
  /\ netCalls = [r \in Reqs |-> 0]
  /\ writes = [r \in Reqs |-> {}]
  /\ rejected = [r \in Reqs |-> {}]
  /\ saved = [r \in Reqs |-> "none"]

\* the worker once activation has loaded its settings
Init == InitWorker /\ loaded = validSettings

FailOpen_LogOnly(r) ==
  /\ pc' = [pc EXCEPT ![r] = "done"]
  /\ UNCHANGED netCalls

\* the catch of fetchAndGetResponse: log, then return await fetch(clone)
FailOpen(r) ==
  /\ pc' = [pc EXCEPT ![r] = "passthrough"]
  /\ netCalls' = [netCalls EXCEPT ![r] = @ + 1]

\* the fetch listener up to the first store read, for request o: the
\* request is cloned, query and variables are extracted and the query is
\* parsed; metaParseAST then awaits get('queries', 'ROOT_QUERY')
Receive(r, o) ==
  /\ pc[r] = "idle"
  /\ \A q \in Reqs : q < r => pc[q] # "idle"
  /\ op' = [op EXCEPT ![r] = o]
  /\ IF "gqlEndpoints" \notin loaded
       \* gqlEndpoints.indexOf on undefined: the listener throws a TypeError
       \* and respondWith is never called
       THEN pc' = [pc EXCEPT ![r] = "threw"] /\ UNCHANGED netCalls
       ELSE IF hasQuery(o)
         THEN pc' = [pc EXCEPT ![r] = "meta"] /\ UNCHANGED netCalls
         ELSE FailOpen(r)
  /\ UNCHANGED <<now, settings, loaded, saved, storeVars, cachedData, lookupFailed, checkedAt,
                 response, updVars, writes, rejected>>

Arrive(r) == \E o \in Ops : Receive(r, o)

\* metaParseAST resumes from its get; runCachingLogic tests the bypass
\* condition, hashes the query and awaits checkQueryExists
MetaDone(r) ==
  /\ pc[r] = "meta"
  /\ \E getOk \in BOOLEAN :
       IF ~getOk \/ doNotCacheThrows
         THEN FailOpen(r)
         ELSE IF bypassed(op[r].query)
           \* executeQuery({..., body}) reads body before its let: the
           \* ReferenceError is caught, logged and rethrown
           THEN FailOpen(r)
           ELSE pc' = [pc EXCEPT ![r] = "lookup"] /\ UNCHANGED netCalls
  /\ UNCHANGED <<now, settings, loaded, saved, storeVars, op, cachedData, lookupFailed, checkedAt,
                 response, updVars, writes, rejected>>

\* the test that guards the detached executeAndUpdate call of a fresh hit
revalidates_Always == TRUE

revalidates_Never == FALSE

revalidates == "cacheMethod" \in loaded /\ settings.cacheMethod = "cache-network"

\* checkQueryExists resumes from get('queries', hashedQuery): a store error
\* is logged and undefined returned.  Then the strategy is chosen.
LookupDone(r) ==
  /\ pc[r] = "lookup"
  /\ \E getOk \in BOOLEAN :
       LET found == IF getOk THEN queries[hashedQuery(op[r])] ELSE Undefined
       IN  /\ cachedData' = [cachedData EXCEPT ![r] = found]
           /\ lookupFailed' = [lookupFailed EXCEPT ![r] = ~getOk]
           /\ checkedAt' = [checkedAt EXCEPT ![r] = now]
           /\ IF found # Undefined /\ checkCachedQueryIsFresh(found.lastApiCall)
                THEN /\ pc' = [pc EXCEPT ![r] = "done"]
                     /\ response' = [response EXCEPT ![r] = Built(found)]
                     /\ IF revalidates
                          THEN /\ upd' = [upd EXCEPT ![r] = "fetch"]
                               /\ detached' = [detached EXCEPT ![r] = TRUE]
                               /\ netCalls' = [netCalls EXCEPT ![r] = @ + 1]
                          ELSE UNCHANGED <<upd, detached, netCalls>>
                ELSE /\ pc' = [pc EXCEPT ![r] = "update"]
                     /\ upd' = [upd EXCEPT ![r] = "fetch"]
                     /\ netCalls' = [netCalls EXCEPT ![r] = @ + 1]
                     /\ UNCHANGED <<response, detached>>
  /\ UNCHANGED <<now, settings, loaded, saved, storeVars, op, data, rootSnap, writes, rejected>>

awaited_Always(r) == TRUE

\* whether the caller of this event's executeAndUpdate awaits its result
awaited(r) == ~detached[r]

\* writeToCache: nothing is written for falsy data; otherwise the record
\* { data, lastApiCall: Date.now() } is set under the hashed query
cacheRecord(d, dateNow) == [data |-> d, lastApiCall |-> dateNow]

writeToCache_NoSet(store, key, d, dateNow) == store

writeToCache(store, key, d, dateNow) ==
  IF d = Undefined THEN store ELSE [store EXCEPT ![key] = cacheRecord(d, dateNow)]

\* executeAndUpdate resumes from executeQuery.  A round trip takes time, so
\* the clock has advanced.  writeToCache and writeToNormalizedCache are
\* called without await: their set and setMany are issued in this turn, in
\* this order, and the store serves requests in the order issued, so both
\* take effect here; a rejection of either has no handler.  With data
\* undefined, data.data throws and executeAndUpdate itself rejects.
FetchDone(r) ==
  /\ upd[r] = "fetch"
  /\ \E outcome \in NetworkOutcomes(op[r]), setOk \in BOOLEAN, setManyOk \in BOOLEAN :
       LET d == executeQuery(outcome)
           t == now + 1
       IN  /\ now' = t
           /\ data' = [data EXCEPT ![r] = d]
           /\ IF d = Undefined
                THEN /\ upd' = [upd EXCEPT ![r] = "end"]
                     /\ UNCHANGED <<storeVars, writes, response>>
                     /\ IF awaited(r)
                          THEN FailOpen(r) /\ UNCHANGED rejected
                          ELSE /\ rejected' = [rejected EXCEPT ![r] = @ \cup {"executeAndUpdate"}]
                               /\ UNCHANGED <<pc, netCalls>>
                ELSE /\ queries' = IF setOk
                                     THEN writeToCache(queries, hashedQuery(op[r]), d, t)
                                     ELSE queries
                     /\ entities' =
                          IF setManyOk
                            THEN setMany(entities,
                                         normalizeResult(PayloadData(d.payload)).denestedObjects)
                            ELSE entities
                     /\ upd' = [upd EXCEPT ![r] = IF setManyOk THEN "rootGet" ELSE "end"]
                     /\ writes' = [writes EXCEPT ![r] = @ \cup {"record", "entities"}]
                     /\ rejected' = [rejected EXCEPT ![r] =
                          @ \cup (IF setOk THEN {} ELSE {"writeToCache"})
                            \cup (IF setManyOk THEN {} ELSE {"writeToNormalizedCache"})]
                     /\ IF awaited(r)
                          THEN /\ pc' = [pc EXCEPT ![r] = "done"]
                               /\ response' = [response EXCEPT ![r] = Built(d)]
                          ELSE UNCHANGED <<pc, response>>
                     /\ UNCHANGED <<rootQuery, netCalls>>
  /\ UNCHANGED <<settings, loaded, saved, op, cachedData, lookupFailed, checkedAt, detached, rootSnap>>

\* writeToNormalizedCache resumes from setMany and from
\* get('queries', 'ROOT_QUERY'); it then issues the set of ROOT_QUERY
RootGet(r) ==
  /\ upd[r] = "rootGet"
  /\ \E getOk \in BOOLEAN :
       IF getOk
         THEN /\ rootSnap' = [rootSnap EXCEPT ![r] = rootQuery]
              /\ upd' = [upd EXCEPT ![r] = "rootSet"]
              /\ UNCHANGED rejected
         ELSE /\ upd' = [upd EXCEPT ![r] = "end"]
              /\ rejected' = [rejected EXCEPT ![r] = @ \cup {"writeToNormalizedCache"}]
              /\ UNCHANGED rootSnap
  /\ UNCHANGED <<now, settings, loaded, saved, storeVars, mainVars, detached, data,
                 netCalls, writes>>

\* the set of ROOT_QUERY takes effect
RootSet(r) ==
  /\ upd[r] = "rootSet"
  /\ upd' = [upd EXCEPT ![r] = "end"]
  /\ writes' = [writes EXCEPT ![r] = @ \cup {"ROOT_QUERY"}]
  /\ \E setOk \in BOOLEAN :
       IF setOk
         THEN /\ rootQuery' =
                   expandedRoot(rootSnap[r],
                                normalizeResult(PayloadData(data[r].payload)).rootQueryObject)
              /\ UNCHANGED rejected
         ELSE /\ rejected' = [rejected EXCEPT ![r] = @ \cup {"writeToNormalizedCache"}]
              /\ UNCHANGED rootQuery
  /\ UNCHANGED <<now, settings, loaded, saved, queries, entities, mainVars, detached, data,
                 rootSnap, netCalls>>

\* fetch(clone) of the catch of fetchAndGetResponse settles; the page gets
\* its response, or its rejection, as it is
Passthrough(r) ==
  /\ pc[r] = "passthrough"
  /\ now' = now + 1
  /\ \E outcome \in NetworkOutcomes(op[r]) :
       response' = [response EXCEPT ![r] = PassedThrough(outcome)]
  /\ pc' = [pc EXCEPT ![r] = "done"]
  /\ UNCHANGED <<settings, loaded, saved, storeVars, op, cachedData, lookupFailed, checkedAt,
                 updVars, ghostVars>>

\* time passes
Tick ==
  /\ now < MaxTime
  /\ now' = now + 1
  /\ UNCHANGED <<settings, loaded, saved, storeVars, mainVars, updVars, ghostVars>>

Next ==
  \/ \E r \in Reqs : Arrive(r)
  \/ \E r \in Reqs : MetaDone(r)
  \/ \E r \in Reqs : LookupDone(r)
  \/ \E r \in Reqs : FetchDone(r)
  \/ \E r \in Reqs : RootGet(r)
  \/ \E r \in Reqs : RootSet(r)
  \/ \E r \in Reqs : Passthrough(r)
  \/ Tick

Spec == Init /\ [][Next]_vars

\* The same worker when the page sends its requests one at a time: a fetch
\* event arrives once the events before it have been answered and their
\* store writes have ended.
Quiet ==
  \A q \in Reqs : pc[q] \in {"idle", "done", "threw"} /\ upd[q] \in {"none", "end"}

ArriveSeq(r) == Quiet /\ Arrive(r)

NextSeq ==
  \/ \E r \in Reqs : ArriveSeq(r)
  \/ \E r \in Reqs : MetaDone(r)
  \/ \E r \in Reqs : LookupDone(r)
  \/ \E r \in Reqs : FetchDone(r)
  \/ \E r \in Reqs : RootGet(r)
  \/ \E r \in Reqs : RootSet(r)
  \/ \E r \in Reqs : Passthrough(r)
  \/ Tick

SpecSeq == Init /\ [][NextSeq]_vars

\* The worker, one fetch event at a time, when the page sends one query
\* text with different variables.
ArriveVars(r) == Quiet /\ \E o \in VarOps : Receive(r, o)

NextVars ==
  \/ \E r \in Reqs : ArriveVars(r)
  \/ \E r \in Reqs : MetaDone(r)
  \/ \E r \in Reqs : LookupDone(r)
  \/ \E r \in Reqs : FetchDone(r)
  \/ \E r \in Reqs : RootGet(r)
  \/ \E r \in Reqs : RootSet(r)
  \/ \E r \in Reqs : Passthrough(r)
  \/ Tick

SpecVars == Init /\ [][NextVars]_vars

\* A network fetch that was issued settles: the host runs the continuation
\* of executeQuery's await once the response or the failure is there.
SpecLive == Init /\ [][Next]_vars /\ \A r \in Reqs : WF_vars(FetchDone(r))

\* Every store and network call a handler awaits settles: the host runs
\* the continuation of each await once its get, fetch or json has completed
\* or failed (the sets and setMany of the detached writes are not awaited
\* by the handler).
SpecFair ==
  /\ Init /\ [][Next]_vars
  /\ \A r \in Reqs :
       /\ WF_vars(MetaDone(r))
       /\ WF_vars(LookupDone(r))
       /\ WF_vars(FetchDone(r))
       /\ WF_vars(Passthrough(r))

(* ----------------------------- activation ---------------------------- *)

\* the worker when its listeners have been registered: settings is {}
InitActivate == InitWorker /\ loaded = {}

\* the activate listener: one get('settings', setting) of the Promise.all
\* settles and its result is assigned to settings[setting]
SettingLoaded(setting) ==
  /\ setting \notin loaded
  /\ loaded' = loaded \cup {setting}
  /\ UNCHANGED <<now, settings, saved, storeVars, mainVars, updVars, ghostVars>>

NextActivate ==
  \/ \E setting \in validSettings : SettingLoaded(setting)
  \/ \E r \in Reqs : ArriveSeq(r)
  \/ \E r \in Reqs : MetaDone(r)
  \/ \E r \in Reqs : LookupDone(r)
  \/ \E r \in Reqs : FetchDone(r)
  \/ \E r \in Reqs : RootGet(r)
  \/ \E r \in Reqs : RootSet(r)
  \/ \E r \in Reqs : Passthrough(r)
  \/ Tick

\* the worker from the registration of its listeners on, with fetch events
\* arriving one at a time while the settings are being loaded
SpecActivate == InitActivate /\ [][NextActivate]_vars

(* ------------------------------ metrics ------------------------------- *)

\* how the promise of metrics.save(hashedQuery) may settle: the sink is
\* fire-and-forget, the call returns at once and a failure of the recording
\* is a rejection of the promise it returned
saveOutcomes == {"saved", "failed"}

saveAwaited_Yes == TRUE

\* whether fetchAndGetResponse awaits metrics.save before it builds the
\* Response: the call is a bare statement inside the try
saveAwaited == FALSE

\* metrics.save(hashedQuery), called once runCachingLogic has returned and
\* before the Response is built, settles.  Were it awaited, its rejection
\* would be thrown inside the try and the catch would fetch(clone).
MetricsSave(r) ==
  /\ pc[r] = "done" /\ response[r] # Undefined /\ response[r].kind = "built"
  /\ saved[r] = "none"
  /\ \E outcome \in saveOutcomes :
       /\ saved' = [saved EXCEPT ![r] = outcome]
       /\ IF outcome = "failed" /\ saveAwaited
            THEN FailOpen(r)
            ELSE UNCHANGED <<pc, netCalls>>
  /\ UNCHANGED <<now, settings, loaded, storeVars, op, cachedData, lookupFailed,
                 checkedAt, response, updVars, writes, rejected>>

NextMetrics ==
  \/ \E r \in Reqs : ArriveSeq(r)
  \/ \E r \in Reqs : MetaDone(r)
  \/ \E r \in Reqs : LookupDone(r)
  \/ \E r \in Reqs : FetchDone(r)
  \/ \E r \in Reqs : RootGet(r)
  \/ \E r \in Reqs : RootSet(r)
  \/ \E r \in Reqs : Passthrough(r)
  \/ \E r \in Reqs : MetricsSave(r)
  \/ Tick

\* the worker, one fetch event at a time, with the metrics sink observed
SpecMetrics == Init /\ [][NextMetrics]_vars

(* ------------------- the specification's vocabulary ------------------- *)

\* isFresh as the specification words it: true if no expiration window is
\* configured, otherwise true iff now - lastFetchedAt < cacheExpirationLimit
IsFresh(cacheExpirationLimit, dateNow, lastFetchedAt) ==
  \/ cacheExpirationLimit = Undefined
  \/ /\ cacheExpirationLimit # Undefined
     /\ dateNow - lastFetchedAt < cacheExpirationLimit.num

Key(r) == hashedQuery(op[r])

\* the three states of the serving strategy, for an event whose lookup has
\* returned
NoRecord(r) == upd[r] # "none" /\ cachedData[r] = Undefined /\ ~lookupFailed[r]

FreshHit(r) ==
  /\ cachedData[r] # Undefined
  /\ IsFresh(settings.cacheExpirationLimit, checkedAt[r], cachedData[r].lastApiCall)

StaleHit(r) ==
  /\ cachedData[r] # Undefined
  /\ ~IsFresh(settings.cacheExpirationLimit, checkedAt[r], cachedData[r].lastApiCall)

\* executeQuery of event r returns in this step
FetchReturns(r) == upd[r] = "fetch" /\ upd'[r] # "fetch"

(* ------------------------------ claims -------------------------------- *)

C2_CacheFirst ==
  \A r \in Reqs :
    (FreshHit(r) /\ settings.cacheMethod = "cache-first")
      => /\ pc[r] = "done"
         /\ response[r] = Built(cachedData[r])
         /\ netCalls[r] = 0
         /\ writes[r] = {}
         /\ upd[r] = "none"

C2_Witness ==
  \E r \in Reqs :
    /\ FreshHit(r) /\ settings.cacheMethod = "cache-first"
    /\ settings.cacheExpirationLimit # Undefined
    /\ response[r] = Built(cachedData[r])

\* a fresh hit under cache-network that has been answered
C3_Answered(r) ==
  /\ FreshHit(r) /\ settings.cacheMethod = "cache-network"
  /\ response[r] # Undefined

\* the background call of event r has resumed from its fetch, and either the
\* fetch or the set of the record failed or the key holds a newer record
C3_Refreshed(r) ==
  /\ upd[r] \notin {"none", "fetch"}
  /\ \/ data[r] = Undefined
     \/ "writeToCache" \in rejected[r]
     \/ /\ cachedData[r] # Undefined
        /\ queries[Key(r)] # Undefined
        /\ queries[Key(r)].lastApiCall > cachedData[r].lastApiCall

\* C3: a fresh hit under cache-network is answered with the cached record
\* while the background fetch is still in flight, and unless that fetch or
\* the set of the record fails, a record of the same key with a newer
\* lastApiCall exists at some later time.
C3_CacheNetwork ==
  /\ [][\A r \in Reqs :
          (response[r] = Undefined /\ C3_Answered(r)')
            => /\ response'[r] = Built(cachedData'[r])
               /\ upd'[r] = "fetch" /\ detached'[r]]_vars
  /\ \A r \in Reqs : C3_Answered(r) ~> C3_Refreshed(r)

C3_Witness ==
  \E r \in Reqs :
    /\ C3_Answered(r) /\ upd[r] \notin {"none", "fetch"}
    /\ data[r] # Undefined /\ "writeToCache" \notin rejected[r]
    /\ queries[Key(r)].data = data[r]
    /\ queries[Key(r)].lastApiCall > cachedData[r].lastApiCall

\* C4: a record that is present but not fresh is never served: the handler
\* fetches from the network, writes the result through and returns the
\* network result, whatever cacheMethod is.
C4_StaleNeverServed ==
  \A r \in Reqs :
    StaleHit(r)
      => /\ response[r] # Built(cachedData[r])
         /\ netCalls[r] >= 1
         /\ ~detached[r]
         /\ (response[r] # Undefined /\ response[r].kind = "built")
              => (response[r] = Built(data[r]) /\ "record" \in writes[r])

\* C5: when the store read of the lookup fails, the page receives the
\* result of the pass-through network call, the event writes nothing to
\* the store and no rejection is left without a handler.
C5_LookupFailOpen ==
  \A r \in Reqs :
    (lookupFailed[r] /\ pc[r] = "done")
      => /\ response[r].kind = "passthrough"
         /\ writes[r] = {}
         /\ rejected[r] = {}

\* the bypass set of the specification and its membership test
BypassSet(endpoint) ==
  {settings.doNotCacheGlobal.list[i] : i \in 1..Len(settings.doNotCacheGlobal.list)}
    \cup (IF endpoint \in DOMAIN settings.doNotCacheCustom
           THEN {settings.doNotCacheCustom[endpoint][i] :
                   i \in 1..Len(settings.doNotCacheCustom[endpoint])}
           ELSE {})

IsBypassed(query, endpoint) ==
  \E i \in 1..Len(TopLevelFields(query)) :
    TopLevelFields(query)[i] \in BypassSet(endpoint)

\* the event went on to the cache lookup
CachePath(r) == pc[r] \in {"lookup", "update"} \/ upd[r] # "none" \/ cachedData[r] # Undefined

\* C6: with do-not-cache enforcement enabled, an operation bypasses the
\* cache if and only if one of its top-level fields is in the bypass set.
C6_Bypass ==
  \A r \in Reqs :
    (op[r] # Undefined /\ hasQuery(op[r]) /\ settings.doNotCacheGlobal # Undefined)
      => /\ bypassed(op[r].query) <=> IsBypassed(op[r].query, Endpoint)
         /\ CachePath(r) => ~IsBypassed(op[r].query, Endpoint)

\* the top-level field names of the response of event r
ResponseFields(r) ==
  {PayloadData(data[r].payload)[i].field : i \in 1..Len(PayloadData(data[r].payload))}

\* the reference(s) the normalizer put in place of top-level field f
ResponseRef(r, f) == normalizeResult(PayloadData(data[r].payload)).rootQueryObject[f]

\* the merge of event r's response has been performed
Merged(r) ==
  /\ upd[r] = "end" /\ data[r] # Undefined
  /\ "ROOT_QUERY" \in writes[r]
  /\ "writeToNormalizedCache" \notin rejected[r]

RootFields == IF rootQuery = Undefined THEN {} ELSE DOMAIN rootQuery

\* C7: with merges performed one at a time, ROOT_QUERY maps every
\* top-level field of every response merged so far, and a merge sets the
\* fields of its patch, leaves every other mapping as it was and creates
\* the record when it was absent.
C7_RootQueryAdditive ==
  /\ [](\A r \in Reqs : Merged(r) => ResponseFields(r) \subseteq RootFields)
  /\ [][\A r \in Reqs :
          (~Merged(r) /\ Merged(r)')
            => /\ rootQuery' # Undefined
               /\ DOMAIN rootQuery' = RootFields \cup ResponseFields(r)
               /\ \A f \in ResponseFields(r) : rootQuery'[f] = ResponseRef(r, f)
               /\ \A f \in RootFields \ ResponseFields(r) : rootQuery'[f] = rootQuery[f]]_vars

C7_Witness ==
  /\ \A r \in Reqs : Merged(r)
  /\ \E r, q \in Reqs : ResponseFields(r) # ResponseFields(q)
  /\ RootFields = {"user", "posts"}

\* C8: an entity merged into the store over a stored entity of the same
\* key has the new write's value for every field of the new write and
\* keeps the stored value of every other field.
C8_EntityShallowMerge ==
  [][\A r \in Reqs :
       (upd[r] = "fetch" /\ upd'[r] = "rootGet")
         => \A i \in 1..Len(PayloadData(data'[r].payload)) :
              \A j \in 1..Len(PayloadData(data'[r].payload)[i].items) :
                LET e == PayloadData(data'[r].payload)[i].items[j]
                    old == entities[KeyOf(e)]
                    new == entities'[KeyOf(e)]
                IN  /\ new # Undefined
                    /\ \A f \in DOMAIN Flat(e) : f \in DOMAIN new /\ new[f] = Flat(e)[f]
                    /\ old # Undefined
                         => \A f \in DOMAIN old \ DOMAIN Flat(e) :
                              f \in DOMAIN new /\ new[f] = old[f]]_vars

\* C9: isFresh is true when no expiration window is configured, and for
\* every configured limit L, 0 included, it is true exactly when
\* now - lastFetchedAt < L; with L = 1000 an age of 999 is fresh, ages of
\* 1000 and 1001 are stale.
C9_Freshness ==
  /\ \A r \in Reqs :
       cachedData[r] # Undefined
         => /\ FreshAt(settings.cacheExpirationLimit, checkedAt[r],
                       cachedData[r].lastApiCall) <=> FreshHit(r)
            /\ response[r] = Built(cachedData[r]) <=> FreshHit(r)
  /\ FreshAt(Num(1000), 1001, 2)
  /\ ~FreshAt(Num(1000), 1001, 1)
  /\ ~FreshAt(Num(1000), 1001, 0)

\* C10: under cache-network the answer to a fresh hit is the cached record
\* in every state that follows, however the detached revalidation ends.
C10_BackgroundIsolated ==
  \A r \in Reqs :
    (FreshHit(r) /\ settings.cacheMethod = "cache-network")
      => /\ pc[r] = "done"
         /\ response[r] = Built(cachedData[r])
         /\ netCalls[r] = 1

C10_Witness ==
  \E r \in Reqs :
    /\ FreshHit(r) /\ settings.cacheMethod = "cache-network"
    /\ upd[r] = "end" /\ rejected[r] # {}
    /\ response[r] = Built(cachedData[r])

\* what runCachingLogic returned as data for event r
Produced(r) == IF upd[r] = "none" \/ detached[r] THEN cachedData[r] ELSE data[r]

C12_OneResponse ==
  /\ \A r \in Reqs : (pc[r] # "idle") ~> (pc[r] = "done" /\ response[r] # Undefined)
  /\ [][\A r \in Reqs :
          /\ response[r] # Undefined => response'[r] = response[r]
          /\ (pc[r] # "done" /\ pc'[r] = "done")
               => \/ /\ response'[r] = [kind |-> "built", status |-> 200,
                                        body |-> Produced(r)']
                     /\ Produced(r)' # Undefined
                  \/ /\ pc[r] = "passthrough"
                     /\ response'[r].kind = "passthrough"
                     /\ response'[r].body \in NetworkOutcomes(op[r])]_vars

C12_Witness ==
  \E r, q \in Reqs :
    /\ pc[r] = "done" /\ response[r].kind = "built"
    /\ pc[q] = "done" /\ response[q].kind = "passthrough" /\ hasQuery(op[q])

\* the store after the normalization of payload p has been merged once into
\* an empty store
EntitiesOnce(p) ==
  setMany([k \in EntityKeys |-> Undefined],
          normalizeResult(PayloadData(p)).denestedObjects)

RootOnce(p) == expandedRoot(Undefined, normalizeResult(PayloadData(p)).rootQueryObject)

AllPayloads == UNION {ServerPayloads(o.query) : o \in Ops}

\* every response merged into the store so far was payload p, and no
\* merge is under way
OnlyMerged(p) ==
  /\ \E r \in Reqs : Merged(r)
  /\ \A r \in Reqs : data[r] = Undefined \/ (Merged(r) /\ data[r] = Payload(p))

\* C13: when the same response has been merged into the initially empty
\* store once, twice or more often, the entities and ROOT_QUERY are those of
\* merging it once.
C13_MergeIdempotent ==
  \A p \in AllPayloads :
    OnlyMerged(p) => (entities = EntitiesOnce(p) /\ rootQuery = RootOnce(p))

C13_Witness ==
  \E p \in AllPayloads :
    /\ OnlyMerged(p)
    /\ \A r \in Reqs : Merged(r)
    /\ rootQuery = RootOnce(p)

\* C14: when two events whose responses have different top-level fields
\* have both merged, in whatever order their store reads and writes were
\* served, ROOT_QUERY maps the fields of both responses, each to the
\* reference its own merge wrote.
C14_ConcurrentMergesSafe ==
  \A r, q \in Reqs :
    (/\ Merged(r) /\ Merged(q)
     /\ ResponseFields(r) \cap ResponseFields(q) = {})
      => /\ ResponseFields(r) \cup ResponseFields(q) \subseteq RootFields
         /\ \A f \in ResponseFields(r) : rootQuery[f] = ResponseRef(r, f)

\* the record the lookup of event r returned holds data that the network
\* returned to event q
FetchedBy(r, q) ==
  /\ q # r /\ pc[q] # "idle"
  /\ data[q] # Undefined /\ data[q] = cachedData[r].data

\* C15: a record returned by the lookup of an operation holds data that
\* was fetched for the same query text with the same variables, for
\* variables given as a query-string value and as a JSON object.
C15_KeyedByVariables ==
  \A r \in Reqs :
    cachedData[r] # Undefined
      => \A q \in Reqs :
           (FetchedBy(r, q) /\ op[q].query = op[r].query)
             => op[q].variables = op[r].variables

\* the network fetch of event r has failed
FetchFailed(r) == upd[r] = "end" /\ data[r] = Undefined

\* C16: when the network fetch of an operation whose lookup found no
\* record or a stale record fails, the top-level handler gets an error (it
\* goes on to the pass-through call, no response is built from the failed
\* fetch) and the event writes nothing to the store.
C16_FetchFailurePropagates ==
  /\ [][\A r \in Reqs :
          ((NoRecord(r) \/ StaleHit(r)) /\ ~FetchFailed(r) /\ FetchFailed(r)')
            => /\ pc'[r] = "passthrough"
               /\ response'[r] = Undefined
               /\ <<queries, entities, rootQuery>>' = <<queries, entities, rootQuery>>]_vars
  /\ [](\A r \in Reqs :
          ((NoRecord(r) \/ StaleHit(r)) /\ FetchFailed(r))
            => /\ writes[r] = {}
               /\ rejected[r] = {}
               /\ response[r] # Undefined => response[r].kind = "passthrough")

\* C17: no call made by a detached background revalidation ends as a
\* rejected promise that has no handler, whether its fetch, its set of the
\* record or its writes of the normalized response fail, and the answer
\* given to the page stays as it was.
C17_BackgroundErrorsCaught ==
  \A r \in Reqs :
    detached[r]
      => /\ rejected[r] = {}
         /\ response[r] = Built(cachedData[r])

\* activation has assigned every setting
SettingsInitialized == loaded = validSettings

\* C18: whenever a fetch event is taken, in every interleaving with the
\* settings load of activation, the settings have been initialized or the
\* listener goes on without raising an error; and no step of a fetch
\* handler changes the settings.
C18_SettingsReady ==
  /\ [][\A r \in Reqs :
          (pc[r] = "idle" /\ pc'[r] # "idle")
            => (SettingsInitialized \/ pc'[r] # "threw")]_vars
  /\ [][(\E r \in Reqs : pc'[r] # pc[r] \/ upd'[r] # upd[r])
          => (settings' = settings /\ loaded' = loaded)]_vars

ServedFromCache(r) ==
  /\ pc[r] = "done" /\ cachedData[r] # Undefined
  /\ upd[r] = "none" \/ detached[r]

\* event q was answered with the data of its network fetch, and the record
\* event r found under the same key holds that data
Populated(q, r) ==
  /\ q # r /\ pc[q] = "done" /\ ~detached[q]
  /\ data[q] # Undefined /\ response[q] = Built(data[q])
  /\ Key(q) = Key(r) /\ cachedData[r].data = data[q]

\* C20: the body served on a hit equals the body that was served for the
\* network fetch which populated the record.
C20_CacheTransparent ==
  \A r, q \in Reqs :
    (ServedFromCache(r) /\ Populated(q, r)) => response[r].body = response[q].body

====
